---- MODULE Spec2Model ----
(***************************************************************************)
(* Model of MarkdownConverterPlugin._process_text_with_markdown            *)
(* (src/main.py): the <md>...</md> segmentation of a text, the content-    *)
(* hash image cache and the hand-off to the render capability              *)
(* markdown_to_image_playwright.                                           *)
(*                                                                         *)
(* A text is a sequence of one-character strings.  The regular expression, *)
(* strip(), startswith(), endswith() and the slice [4:-5] work on          *)
(* characters, as in the source.                                           *)
(***************************************************************************)
EXTENDS Naturals, Sequences, FiniteSets

(***************************************************************************)
(* Bounds of the model.                                                    *)
(***************************************************************************)
\* longest generated input text of the single-call specification, in tokens
MaxTokens == 5

(***************************************************************************)
(* Literals of the source.                                                 *)
(***************************************************************************)
\* the literal "<md>" of the pattern and of startswith()
OPEN == <<"<", "m", "d", ">">>

\* the literal "</md>" of the pattern and of endswith()
CLOSE == <<"<", "/", "m", "d", ">">>

\* characters str.strip() removes
Whitespace == {" ", "\t", "\n", "\r"}

\* the pieces input texts are built from: the two tags, a blank, a letter
Tokens == {OPEN, CLOSE, <<" ">>, <<"a">>}

RECURSIVE TextsOfLen(_)
TextsOfLen(n) ==
    IF n = 0 THEN {<<>>}
    ELSE {t \o k : t \in TextsOfLen(n - 1), k \in Tokens}

\* the example texts of the specification, letters for its words:
\* "pre <md>X</md> mid <md>Y</md> post", "<md>A<md>B</md>",
\* "<md>A<md>B</md>C</md>", "<md>X</md><md>Y" and "<md>   </md>"
Examples ==
    { <<"a", " ">> \o OPEN \o <<"b">> \o CLOSE \o <<" ", "a", "a", " ">>
          \o OPEN \o <<"b", "b">> \o CLOSE \o <<" ", "a">>,
      OPEN \o <<"a">> \o OPEN \o <<"b">> \o CLOSE,
      OPEN \o <<"a">> \o OPEN \o <<"b">> \o CLOSE \o <<"a">> \o CLOSE,
      OPEN \o <<"a">> \o CLOSE \o OPEN \o <<"b">>,
      OPEN \o <<" ", " ", " ">> \o CLOSE }

\* every text of at most MaxTokens tokens, and the examples
Texts == UNION {TextsOfLen(n) : n \in 0..MaxTokens} \cup Examples

(***************************************************************************)
(* String primitives of the Python runtime.                                *)
(***************************************************************************)
\* t[i-1:].startswith(pat), i counted from 1
StartsAt(t, pat, i) ==
    /\ i >= 1
    /\ i + Len(pat) - 1 <= Len(t)
    /\ SubSeq(t, i, i + Len(pat) - 1) = pat

\* t.find(pat, i-1) + 1: the first occurrence of pat at or after i, 0 if none
FindFrom(t, pat, i) ==
    LET hits == {j \in i..Len(t) : StartsAt(t, pat, j)}
    IN  IF hits = {} THEN 0
        ELSE CHOOSE j \in hits : \A k \in hits : j <= k

StartsWith(t, pat) == StartsAt(t, pat, 1)

EndsWith(t, pat) ==
    /\ Len(pat) <= Len(t)
    /\ SubSeq(t, Len(t) - Len(pat) + 1, Len(t)) = pat

\* str.lstrip() in the place of str.strip()
LStrip(t) ==
    LET keep == {i \in 1..Len(t) : t[i] \notin Whitespace}
    IN  IF keep = {} THEN <<>>
        ELSE SubSeq(t, CHOOSE i \in keep : \A k \in keep : i <= k, Len(t))

\* str.strip(): drop leading and trailing whitespace
Strip(t) ==
    LET keep == {i \in 1..Len(t) : t[i] \notin Whitespace}
    IN  IF keep = {} THEN <<>>
        ELSE LET lo == CHOOSE i \in keep : \A k \in keep : i <= k
                 hi == CHOOSE i \in keep : \A k \in keep : i >= k
             IN  SubSeq(t, lo, hi)

\* part[4:-4] in the place of part[4:-5]
SliceTagsShort(part) == SubSeq(part, 5, Len(part) - 4)

\* part[4:-5]
SliceTags(part) == SubSeq(part, 5, Len(part) - 5)

(***************************************************************************)
(* re.split(r"(<md>.*?</md>)", text, flags=re.DOTALL)                      *)
(***************************************************************************)
\* the greedy pattern <md>.*</md> in the place of <md>.*?</md>
MatchFromGreedy(t, pos) ==
    LET s == FindFrom(t, OPEN, pos)
        ends == {j \in 1..Len(t) : j >= s + Len(OPEN) /\ StartsAt(t, CLOSE, j)}
    IN  IF s = 0 \/ ends = {} THEN <<0, 0>>
        ELSE <<s, (CHOOSE j \in ends : \A k \in ends : j >= k) + Len(CLOSE) - 1>>

\* the leftmost, shortest match of <md>.*?</md> at or after pos:
\* <<start, end>>, or <<0, 0>> when there is none
MatchFrom(t, pos) ==
    LET s == FindFrom(t, OPEN, pos)
        e == IF s = 0 THEN 0 ELSE FindFrom(t, CLOSE, s + Len(OPEN))
    IN  IF s = 0 \/ e = 0 THEN <<0, 0>>
        ELSE <<s, e + Len(CLOSE) - 1>>

RECURSIVE ReSplitFrom(_, _)
ReSplitFrom(t, pos) ==
    LET m == MatchFrom(t, pos)
    IN  IF m[1] = 0 THEN << SubSeq(t, pos, Len(t)) >>
        ELSE << SubSeq(t, pos, m[1] - 1), SubSeq(t, m[1], m[2]) >>
             \o ReSplitFrom(t, m[2] + 1)

ReSplit(t) == ReSplitFrom(t, 1)

(***************************************************************************)
(* Message components, the cache path and the failure notices.             *)
(***************************************************************************)
\* Plain(text)
Plain(s) == [kind |-> "Plain", text |-> s]

\* Image.fromFileSystem(path)
ImageFromFileSystem(path) == [kind |-> "Image", path |-> path]

\* hashlib.sha256(md_content.encode("utf-8")).hexdigest(): a digest that
\* differs for different contents
Sha256Hex(md) == <<"sha256(">> \o md \o <<")">>

\* os.path.join(self.IMAGE_CACHE_DIR, f"{md_hash}.png")
OutputPath(md) == <<"md2img_cache/">> \o Sha256Hex(md) \o <<".png">>

\* the notice emitted when the render returned and the file is not there
FailNotice(md) == Plain(<<"--- Markdown render failed ---\n">> \o md)

\* the notice emitted when the render raised
ExcNotice(md) == Plain(<<"--- Markdown render exception ---\n">> \o md)

\* part.startswith("<md>") and part.endswith("</md>")
IsMdPart(part) == StartsWith(part, OPEN) /\ EndsWith(part, CLOSE)

\* part[4:-5] without the strip()
MdContentNoStrip(part) == SliceTags(part)

\* md_content = part[4:-5].strip()
MdContent(part) == Strip(SliceTags(part))

(***************************************************************************)
(* The cache directory: fs maps each existing path to "empty" (a file of   *)
(* zero bytes) or "full" (a file of more than zero bytes).                 *)
(***************************************************************************)
\* os.path.exists(path)
Exists(fs, path) == path \in DOMAIN fs

\* os.path.exists(output_path) and os.path.getsize(output_path) > 0
CacheHit(fs, path) == Exists(fs, path) /\ fs[path] = "full"

\* element_handle.screenshot(path=output_image_path) writes the image
Screenshot(fs, path) ==
    [p \in (DOMAIN fs) \cup {path} |-> IF p = path THEN "full" ELSE fs[p]]

\* the component added once the render is over or was skipped
Emit(fs, path, md) ==
    IF Exists(fs, path) THEN ImageFromFileSystem(path) ELSE FailNotice(md)

(***************************************************************************)
(* What the render capability does with an invocation: write the image and *)
(* return, raise, return without writing, or never complete.               *)
(***************************************************************************)
Modes == {"ok", "raises", "nofile", "hangs"}

(***************************************************************************)
(* One iteration of the for loop on the part raw, the cache being fs: the  *)
(* part is skipped, a component is added, or the render is awaited.        *)
(***************************************************************************)
IsEmit(step) == step.do = "emit"

PartStep(raw, fs) ==
    LET part == Strip(raw)
        md == MdContent(part)
        path == OutputPath(md)
    IN  IF part = <<>> THEN [do |-> "skip", comp |-> <<>>]
        ELSE IF IsMdPart(part)
        THEN IF md = <<>> THEN [do |-> "skip", comp |-> <<>>]
             ELSE IF CacheHit(fs, path)
             THEN [do |-> "emit", comp |-> Emit(fs, path, md)]
             ELSE [do |-> "render", comp |-> <<>>]
        ELSE [do |-> "emit", comp |-> Plain(part)]

(***************************************************************************)
(* The for loop over the parts, run from part i until the function         *)
(* returns ("done") or suspends in `await markdown_to_image_playwright`    *)
(* for part idx ("await").  The loop reads the cache but does not write it.*)
(***************************************************************************)
RunLoop(ps, i, comps, fs) ==
    LET steps == [k \in 1..Len(ps) |-> PartStep(ps[k], fs)]
        stops == {k \in i..Len(ps) : steps[k].do = "render"}
        stop == IF stops = {} THEN Len(ps) + 1
                ELSE CHOOSE k \in stops : \A j \in stops : k <= j
        emitted == SelectSeq(SubSeq(steps, i, stop - 1), IsEmit)
    IN  [pc |-> IF stops = {} THEN "done" ELSE "await",
         idx |-> stop,
         components |-> comps \o [k \in 1..Len(emitted) |-> emitted[k].comp]]

(***************************************************************************)
(* State.                                                                  *)
(***************************************************************************)
VARIABLES
    text,        \* text[c]: the argument of call c
    pc,          \* pc[c]: "start", "await" (suspended in the render) or "done"
    parts,       \* parts[c]: the result of re.split
    idx,         \* idx[c]: the part whose render call c awaits
    components,  \* components[c]: the list the call builds and returns
    rendered,    \* rendered[c]: the md_text of every render call c has made
    inflight,    \* inflight[c]: what the render call c awaits will do
    files,       \* the files of IMAGE_CACHE_DIR
    renderer     \* what the render capability does when invoked now

VARIABLES
    extras,      \* extras[e]: the extra dict of event e, key -> value
    callLlm,     \* callLlm[e]: whether the default LLM request is still on
    replies,     \* replies[e]: the results the md command has yielded for e
    sysprompt,   \* sysprompt[e]: what was added to the system prompt of e's request
    result,      \* result[e]: the result of event e and its chain
    incoming,    \* incoming[e]: the results the framework is yet to give e
    store,       \* the conversation of the conversation manager
    mdinv,       \* mdinv[m]: the md command invocation m
    dec          \* dec[d]: the on_decorating_result invocation d

hookVars == <<extras, callLlm, replies, sysprompt, result, incoming, store, mdinv,
              dec>>

vars == <<text, pc, parts, idx, components, rendered, inflight, files, renderer,
          hookVars>>

\* no event has arrived, no hook is invoked
NoHooks ==
    /\ extras = <<>>
    /\ callLlm = <<>>
    /\ replies = <<>>
    /\ sysprompt = <<>>
    /\ result = <<>>
    /\ incoming = <<>>
    /\ store = [has |-> FALSE, history |-> <<>>]
    /\ mdinv = <<>>
    /\ dec = <<>>

Calls == DOMAIN text

\* the markdown of the part call c is rendering
CurrentMd(c) == MdContent(Strip(parts[c][idx[c]]))

\* the cache paths a call on text t looks at
CachePaths(t) ==
    LET ps == ReSplit(t)
    IN  {OutputPath(MdContent(Strip(ps[i]))) :
            i \in {j \in 1..Len(ps) : IsMdPart(Strip(ps[j]))}}

\* the calls cs are made, none has run yet
InitCalls(cs) ==
    /\ pc = [c \in cs |-> "start"]
    /\ parts = [c \in cs |-> <<>>]
    /\ idx = [c \in cs |-> 0]
    /\ components = [c \in cs |-> <<>>]
    /\ rendered = [c \in cs |-> <<>>]
    /\ inflight = [c \in cs |-> "none"]

\* one call on any text, the cache directory in any state, the render
\* capability in any mode
Init ==
    /\ text \in [{"c1"} -> Texts]
    /\ InitCalls({"c1"})
    /\ \E dom \in SUBSET CachePaths(text["c1"]) :
          files \in [dom -> {"empty", "full"}]
    /\ renderer \in Modes
    /\ NoHooks

\* the texts of the concurrent calls
ConcTexts ==
    { OPEN \o <<"a">> \o CLOSE,
      <<"b">> \o OPEN \o <<"a">> \o CLOSE,
      OPEN \o <<"a">> \o CLOSE \o OPEN \o <<"b">> \o CLOSE \o <<"a">> }

\* two calls of the same plugin instance, the cache directory empty
ConcInit ==
    /\ text \in [{"c1", "c2"} -> ConcTexts]
    /\ InitCalls({"c1", "c2"})
    /\ files = [p \in {} |-> "full"]
    /\ renderer \in Modes
    /\ NoHooks

\* the state of call c after the loop ran on from part i
Resume(c, ps, i, comps, fs) ==
    LET r == RunLoop(ps, i, comps, fs)
    IN  /\ pc' = [pc EXCEPT ![c] = r.pc]
        /\ idx' = [idx EXCEPT ![c] = r.idx]
        /\ components' = [components EXCEPT ![c] = r.components]
        /\ IF r.pc = "await"
           THEN /\ rendered' = [rendered EXCEPT
                       ![c] = Append(@, MdContent(Strip(ps[r.idx])))]
                /\ inflight' = [inflight EXCEPT ![c] = renderer]
           ELSE /\ rendered' = rendered
                /\ inflight' = [inflight EXCEPT ![c] = "none"]

\* call c runs from its first line to its first await, or to its return
Call(c) ==
    /\ pc[c] = "start"
    /\ LET ps == ReSplit(text[c])
       IN  /\ parts' = [parts EXCEPT ![c] = ps]
           /\ Resume(c, ps, 1, <<>>, files)
    /\ UNCHANGED <<text, files, renderer, hookVars>>

\* RenderReturn with the component put at the head of the list
RenderReturnPrepend(c) ==
    /\ pc[c] = "await"
    /\ inflight[c] \in {"ok", "raises", "nofile"}
    /\ LET md == CurrentMd(c)
           path == OutputPath(md)
           fs == IF inflight[c] = "ok" THEN Screenshot(files, path) ELSE files
           comp == IF inflight[c] = "raises" THEN ExcNotice(md)
                   ELSE Emit(fs, path, md)
       IN  /\ files' = fs
           /\ Resume(c, parts[c], idx[c] + 1, <<comp>> \o components[c], fs)
    /\ UNCHANGED <<text, parts, renderer, hookVars>>

\* the render call c awaits is over: the call adds the image or the notice
\* and runs on to its next await, or to its return
RenderReturn(c) ==
    /\ pc[c] = "await"
    /\ inflight[c] \in {"ok", "raises", "nofile"}
    /\ LET md == CurrentMd(c)
           path == OutputPath(md)
           fs == IF inflight[c] = "ok" THEN Screenshot(files, path) ELSE files
           comp == IF inflight[c] = "raises" THEN ExcNotice(md)
                   ELSE Emit(fs, path, md)
       IN  /\ files' = fs
           /\ Resume(c, parts[c], idx[c] + 1, Append(components[c], comp), fs)
    /\ UNCHANGED <<text, parts, renderer, hookVars>>

\* the render capability changes its behaviour (browser or network comes
\* and goes)
RendererChange ==
    /\ renderer' \in Modes \ {renderer}
    /\ UNCHANGED <<text, pc, parts, idx, components, rendered, inflight, files,
                   hookVars>>

Next ==
    \/ \E c \in Calls : Call(c)
    \/ \E c \in Calls : RenderReturn(c)
    \/ RendererChange

Spec == Init /\ [][Next]_vars

ConcSpec == ConcInit /\ [][Next]_vars

\* the steps Call(c) and RenderReturn(c), told by what they do to pc and
\* idx: no other step of Next takes pc[c] off "start", or moves idx[c] while
\* the call awaits its render
CallRuns(c) ==
    /\ pc[c] = "start"
    /\ pc' \in {[pc EXCEPT ![c] = v] : v \in {"await", "done"}}

RenderReturns(c) ==
    /\ pc[c] = "await"
    /\ inflight[c] \in {"ok", "raises", "nofile"}
    /\ idx' \in {[idx EXCEPT ![c] = k] : k \in (idx[c] + 1)..(Len(parts[c]) + 1)}

\* the event loop runs every call that can run: a call that was made
\* starts, and a call whose render has ended is resumed; nothing makes the
\* render capability change, or end a render that never completes
FairSpec ==
    /\ ConcInit
    /\ [][Next]_vars
    /\ \A c \in {"c1", "c2"} : WF_pc(CallRuns(c)) /\ WF_idx(RenderReturns(c))

(***************************************************************************)
(* The hooks of the plugin: the md command, on_llm_req, on_llm_resp and    *)
(* on_decorating_result, invoked by the framework on events.  Every        *)
(* invocation runs without interruption from one await to the next.        *)
(***************************************************************************)
\* on_llm_req is invoked up to MaxRequests times on an event of /md
MaxRequests == 1

\* the histories of every length up to MaxHist are tried
MaxHist == 2

CMD_PROCESSED == "_md2img_cmd_processed"
INJECT == "_md2img_inject"
DECORATED == "_md2img_decorated"
CONVERSATION_ID == "_md2img_conversation_id"
PROMPT_TEXT == "_md2img_prompt_text"
RAW_TEXT == "raw_llm_completion_text"

Events == DOMAIN extras
MdInvs == DOMAIN mdinv
DecInvs == DOMAIN dec

\* GetExtra reading the key on any event that has it, as a field of the
\* plugin instance would be read
GetExtraShared(e, key, default) ==
    IF \E x \in Events : key \in DOMAIN extras[x]
    THEN extras[CHOOSE x \in Events : key \in DOMAIN extras[x]][key]
    ELSE default

\* event.get_extra(key, default)
GetExtra(e, key, default) ==
    IF key \in DOMAIN extras[e] THEN extras[e][key] ELSE default

\* event.set_extra(key, value), on the extra dict x
SetExtra(x, key, value) ==
    [k \in (DOMAIN x) \cup {key} |-> IF k = key THEN value ELSE x[k]]

\* the results md yields; each of them is followed by .stop_event()
PlainResult(notice) ==
    [kind |-> notice, prompt |-> <<>>, conversation |-> FALSE, stop |-> TRUE]

RequestLlm(prompt, conversation) ==
    [kind |-> "request_llm", prompt |-> prompt, conversation |-> conversation,
     stop |-> TRUE]

\* the id of the conversation of the conversation manager
TheCid == "cid1"

callVars == <<text, pc, parts, idx, components, rendered, inflight>>

MdIdle == [pc |-> "idle", ev |-> "", prompt_text |-> <<>>]

\* Md that does not record that the command was processed
MdNoMark(m, e, prompt) ==
    /\ mdinv[m].pc = "idle"
    /\ LET prompt_text == Strip(prompt)
           inv == [pc |-> "done", ev |-> e, prompt_text |-> prompt_text]
       IN  IF GetExtra(e, CMD_PROCESSED, FALSE)
           THEN /\ replies' = [replies EXCEPT ![e] = Append(@, PlainResult("duplicate"))]
                /\ mdinv' = [mdinv EXCEPT ![m] = inv]
                /\ UNCHANGED <<extras, callLlm>>
           ELSE IF prompt_text = <<>>
           THEN /\ callLlm' = [callLlm EXCEPT ![e] = FALSE]
                /\ replies' = [replies EXCEPT ![e] = Append(@, PlainResult("usage"))]
                /\ mdinv' = [mdinv EXCEPT ![m] = inv]
                /\ UNCHANGED extras
           ELSE /\ extras' = [extras EXCEPT ![e] = SetExtra(@, INJECT, TRUE)]
                /\ callLlm' = [callLlm EXCEPT ![e] = FALSE]
                /\ mdinv' = [mdinv EXCEPT ![m] = [inv EXCEPT !.pc = "await"]]
                /\ UNCHANGED replies
    /\ UNCHANGED <<sysprompt, incoming, result, store, dec, files, renderer, callVars>>

\* the md command is invoked on event e: it runs to its first await on the
\* conversation manager, or to its return
Md(m, e, prompt) ==
    /\ mdinv[m].pc = "idle"
    /\ LET prompt_text == Strip(prompt)
           inv == [pc |-> "done", ev |-> e, prompt_text |-> prompt_text]
       IN  IF GetExtra(e, CMD_PROCESSED, FALSE)
           THEN /\ replies' = [replies EXCEPT ![e] = Append(@, PlainResult("duplicate"))]
                /\ mdinv' = [mdinv EXCEPT ![m] = inv]
                /\ UNCHANGED <<extras, callLlm>>
           ELSE IF prompt_text = <<>>
           THEN /\ extras' = [extras EXCEPT ![e] = SetExtra(@, CMD_PROCESSED, TRUE)]
                /\ callLlm' = [callLlm EXCEPT ![e] = FALSE]
                /\ replies' = [replies EXCEPT ![e] = Append(@, PlainResult("usage"))]
                /\ mdinv' = [mdinv EXCEPT ![m] = inv]
           ELSE /\ extras' = [extras EXCEPT ![e] =
                       SetExtra(SetExtra(@, CMD_PROCESSED, TRUE), INJECT, TRUE)]
                /\ callLlm' = [callLlm EXCEPT ![e] = FALSE]
                /\ mdinv' = [mdinv EXCEPT ![m] = [inv EXCEPT !.pc = "await"]]
                /\ UNCHANGED replies
    /\ UNCHANGED <<sysprompt, incoming, result, store, dec, files, renderer, callVars>>

\* what the awaits on the conversation manager come to: the conversation id
\* and the conversation, the id only (get_conversation raised), or nothing
\* (the manager is absent, or raised before it gave an id)
MdOutcomes == {"conversation", "cid_only", "raised"}

\* the awaits of md on the conversation manager are over: md stores the
\* conversation id if it has one, and issues the LLM request.  The awaits
\* (get_curr_conversation_id, new_conversation, get_conversation) are taken
\* as one suspension.
MdResume(m, outcome) ==
    /\ mdinv[m].pc = "await"
    /\ LET e == mdinv[m].ev
           prompt_text == mdinv[m].prompt_text
       IN  /\ IF outcome = "raised"
              THEN UNCHANGED <<store, extras>>
              ELSE /\ store' = [store EXCEPT !.has = TRUE]
                   /\ extras' = [extras EXCEPT ![e] =
                          SetExtra(SetExtra(@, CONVERSATION_ID, TheCid),
                                   PROMPT_TEXT, prompt_text)]
           /\ replies' = [replies EXCEPT ![e] =
                  Append(@, RequestLlm(prompt_text, outcome = "conversation"))]
    /\ mdinv' = [mdinv EXCEPT ![m].pc = "done"]
    /\ UNCHANGED <<callLlm, sysprompt, incoming, result, dec, files, renderer, callVars>>

\* OnLlmReq without the test of the inject flag
OnLlmReqAlways(e) ==
    /\ Len(sysprompt[e]) < MaxRequests
    /\ sysprompt' = [sysprompt EXCEPT ![e] = Append(@, "instruction_prompt")]
    /\ UNCHANGED <<extras, callLlm, replies, result, incoming, store, mdinv, dec,
                   files, renderer, callVars>>

\* on_llm_req is invoked on event e
OnLlmReq(e) ==
    /\ Len(sysprompt[e]) < MaxRequests
    /\ IF ~GetExtra(e, INJECT, FALSE)
       THEN UNCHANGED sysprompt
       ELSE sysprompt' = [sysprompt EXCEPT ![e] = Append(@, "instruction_prompt")]
    /\ UNCHANGED <<extras, callLlm, replies, result, incoming, store, mdinv, dec,
                   files, renderer, callVars>>

\* on_llm_resp is invoked on event e with a response
OnLlmResp(e) ==
    /\ IF ~GetExtra(e, INJECT, FALSE)
       THEN UNCHANGED extras
       ELSE extras' = [extras EXCEPT ![e] = SetExtra(@, RAW_TEXT, "completion_text")]
    /\ UNCHANGED <<callLlm, replies, sysprompt, incoming, result, store, mdinv, dec, files,
                   renderer, callVars>>

(***************************************************************************)
(* on_decorating_result.                                                   *)
(***************************************************************************)
\* components that are not Plain
At(qq) == [kind |-> "At", qq |-> qq]

\* new_chain.extend(components)
ExtendFront(new_chain, comps) == comps \o new_chain

Extend(new_chain, comps) == new_chain \o comps

\* the for loop over the chain, run from item i (RunItems), or from part j
\* of the text of item i (RunItem), until it ends ("tail") or suspends in a
\* render ("await")
RECURSIVE RunItems(_, _, _, _)
RunItem(chain, i, ps, j, comps, new_chain, fs) ==
    LET r == RunLoop(ps, j, comps, fs)
    IN  IF r.pc = "await"
        THEN [pc |-> "await", item |-> i, parts |-> ps, idx |-> r.idx,
              comps |-> r.components, new |-> new_chain]
        ELSE RunItems(chain, i + 1, Extend(new_chain, r.components), fs)

RunItems(chain, i, new_chain, fs) ==
    IF i > Len(chain)
    THEN [pc |-> "tail", item |-> i, parts |-> <<>>, idx |-> 0,
          comps |-> <<>>, new |-> new_chain]
    ELSE IF chain[i].kind = "Plain"
    THEN RunItem(chain, i, ReSplit(chain[i].text), 1, <<>>, new_chain, fs)
    ELSE RunItems(chain, i + 1, Append(new_chain, chain[i]), fs)

\* the OpenAI-style content parts
TextPart(t) == [type |-> "text", text |-> t]
ImageUrlPart(path) == [type |-> "image_url", url |-> path]

\* the parts assembled from the chain: a Plain with a text gives a text
\* part, an Image whose file converts to base64 gives an image_url part
HasPart(fs, comp) ==
    \/ comp.kind = "Plain" /\ comp.text # <<>>
    \/ comp.kind = "Image" /\ CacheHit(fs, comp.path)

PartOf(comp) ==
    IF comp.kind = "Plain" THEN TextPart(comp.text) ELSE ImageUrlPart(comp.path)

ContentParts(chain, fs) ==
    LET Kept(comp) == HasPart(fs, comp)
        kept == SelectSeq(chain, Kept)
    IN  [k \in 1..Len(kept) |-> PartOf(kept[k])]

\* the records of a history: a message with a role and a content that is a
\* string or a list of parts, or something that is not a dict
Content(s) == [list |-> FALSE, val |-> s]
ListContent(ps) == [list |-> TRUE, val |-> ps]
Message(role, content) == [dict |-> TRUE, role |-> role, content |-> content]
NotADict == [dict |-> FALSE, role |-> "", content |-> Content(<<>>)]

\* _match_user_prompt(rec)
MatchUserPrompt(rec, prompt_text) ==
    /\ prompt_text # <<>>
    /\ rec.role = "user"
    /\ IF rec.content.list
       THEN \E k \in 1..Len(rec.content.val) :
               /\ rec.content.val[k].type = "text"
               /\ rec.content.val[k].text = prompt_text
       ELSE rec.content.val = prompt_text

IsAssistant(rec) == rec.dict /\ rec.role = "assistant"

\* TargetRecord that takes the first assistant record of the history
TargetRecordFirst(history, prompt_text) ==
    LET all == {j \in 1..Len(history) : IsAssistant(history[j])}
    IN  IF all # {} THEN CHOOSE j \in all : \A k \in all : j <= k
        ELSE 0

\* the record whose content is replaced, 0 if there is none
TargetRecord(history, prompt_text) ==
    LET users == {i \in 1..Len(history) :
                     history[i].dict /\ MatchUserPrompt(history[i], prompt_text)}
        user_index == IF users = {} THEN 0
                      ELSE CHOOSE i \in users : \A k \in users : k <= i
        after == {j \in (user_index + 1)..Len(history) : IsAssistant(history[j])}
        all == {j \in 1..Len(history) : IsAssistant(history[j])}
    IN  IF user_index # 0 /\ after # {}
        THEN CHOOSE j \in after : \A k \in after : j <= k
        ELSE IF all # {} THEN CHOOSE j \in all : \A k \in all : k <= j
        ELSE 0

\* rec["content"] = parts
UpdateHistory(history, target, cparts) ==
    [history EXCEPT ![target].content = ListContent(cparts)]

DecIdle ==
    [pc |-> "idle", ev |-> "", chain |-> <<>>, item |-> 0, parts |-> <<>>,
     idx |-> 0, comps |-> <<>>, new |-> <<>>, rendered |-> <<>>,
     inflight |-> "none", wrote |-> FALSE, cparts |-> <<>>,
     history |-> <<>>, updated |-> <<>>]

\* invocation d, in state inv, has run the loop over the chain to r: it is
\* suspended in a render, or it has assigned result.chain, assembled the
\* parts and is suspended in get_conversation, or it has returned
Proceed(d, inv, r, fs) ==
    LET e == inv.ev
        at == [inv EXCEPT !.pc = r.pc, !.item = r.item, !.parts = r.parts,
                          !.idx = r.idx, !.comps = r.comps, !.new = r.new]
        cid == GetExtra(e, CONVERSATION_ID, "")
        cparts == ContentParts(r.new, fs)
    IN  IF r.pc = "await"
        THEN /\ dec' = [dec EXCEPT ![d] =
                   [at EXCEPT !.rendered = Append(@, MdContent(Strip(r.parts[r.idx]))),
                              !.inflight = renderer]]
             /\ UNCHANGED result
        ELSE /\ result' = [result EXCEPT ![e].chain = r.new]
             /\ dec' = [dec EXCEPT ![d] =
                   [at EXCEPT !.pc = IF cid = "" \/ cparts = <<>> THEN "done"
                                     ELSE "get_conversation",
                              !.inflight = "none",
                              !.wrote = TRUE,
                              !.cparts = cparts]]

\* OnDecoratingResult that does not set the decorated flag
OnDecoratingResultNoFlag(d, e) ==
    /\ dec[d].pc = "idle"
    /\ LET inv == [dec[d] EXCEPT !.ev = e]
       IN  IF ~GetExtra(e, INJECT, FALSE) \/ GetExtra(e, DECORATED, FALSE)
           THEN /\ dec' = [dec EXCEPT ![d] = [inv EXCEPT !.pc = "done"]]
                /\ UNCHANGED <<extras, result>>
           ELSE /\ UNCHANGED extras
                /\ IF ~result[e].set \/ result[e].chain = <<>>
                   THEN /\ dec' = [dec EXCEPT ![d] = [inv EXCEPT !.pc = "done"]]
                        /\ UNCHANGED result
                   ELSE Proceed(d, [inv EXCEPT !.chain = result[e].chain],
                                RunItems(result[e].chain, 1, <<>>, files), files)
    /\ UNCHANGED <<callLlm, replies, sysprompt, incoming, store, mdinv, files, renderer,
                   callVars>>

\* on_decorating_result is invoked on event e: it runs to its first await,
\* or to its return
OnDecoratingResult(d, e) ==
    /\ dec[d].pc = "idle"
    /\ LET inv == [dec[d] EXCEPT !.ev = e]
       IN  IF ~GetExtra(e, INJECT, FALSE) \/ GetExtra(e, DECORATED, FALSE)
           THEN /\ dec' = [dec EXCEPT ![d] = [inv EXCEPT !.pc = "done"]]
                /\ UNCHANGED <<extras, result>>
           ELSE /\ extras' = [extras EXCEPT ![e] = SetExtra(@, DECORATED, TRUE)]
                /\ IF ~result[e].set \/ result[e].chain = <<>>
                   THEN /\ dec' = [dec EXCEPT ![d] = [inv EXCEPT !.pc = "done"]]
                        /\ UNCHANGED result
                   ELSE Proceed(d, [inv EXCEPT !.chain = result[e].chain],
                                RunItems(result[e].chain, 1, <<>>, files), files)
    /\ UNCHANGED <<callLlm, replies, sysprompt, incoming, store, mdinv, files, renderer,
                   callVars>>

\* the render invocation d awaits is over: the invocation runs on to its
\* next await, or to its return
DecorRenderReturn(d) ==
    /\ dec[d].pc = "await"
    /\ dec[d].inflight \in {"ok", "raises", "nofile"}
    /\ LET inv == dec[d]
           md == MdContent(Strip(inv.parts[inv.idx]))
           path == OutputPath(md)
           fs == IF inv.inflight = "ok" THEN Screenshot(files, path) ELSE files
           comp == IF inv.inflight = "raises" THEN ExcNotice(md)
                   ELSE Emit(fs, path, md)
       IN  /\ files' = fs
           /\ Proceed(d, inv,
                      RunItem(inv.chain, inv.item, inv.parts, inv.idx + 1,
                              Append(inv.comps, comp), inv.new, fs), fs)
    /\ UNCHANGED <<extras, callLlm, replies, sysprompt, incoming, store, mdinv,
                   renderer, callVars>>

\* get_conversation of invocation d is over (ok), or has raised: the
\* invocation picks the record, replaces its content and calls
\* update_conversation, or it returns
DecorGetConversation(d, ok) ==
    /\ dec[d].pc = "get_conversation"
    /\ LET inv == dec[d]
           history == store.history
           prompt_text == GetExtra(inv.ev, PROMPT_TEXT, <<>>)
           target == TargetRecord(history, prompt_text)
       IN  IF ~ok \/ ~store.has \/ history = <<>> \/ target = 0
           THEN dec' = [dec EXCEPT ![d].pc = "done"]
           ELSE dec' = [dec EXCEPT ![d] =
                   [inv EXCEPT !.pc = "update_conversation",
                               !.history = history,
                               !.updated = UpdateHistory(history, target, inv.cparts)]]
    /\ UNCHANGED <<extras, callLlm, replies, sysprompt, incoming, result, store, mdinv,
                   files, renderer, callVars>>

\* update_conversation of invocation d stores the history it was given
DecorUpdateConversation(d) ==
    /\ dec[d].pc = "update_conversation"
    /\ store' = [store EXCEPT !.history = dec[d].updated]
    /\ dec' = [dec EXCEPT ![d].pc = "done"]
    /\ UNCHANGED <<extras, callLlm, replies, sysprompt, incoming, result, mdinv,
                   files, renderer, callVars>>

\* the framework gives event e its next result, while no invocation
\* decorates the event
SetResult(e) ==
    /\ incoming[e] # <<>>
    /\ \A d \in DecInvs : dec[d].ev = e => dec[d].pc = "done"
    /\ result' = [result EXCEPT ![e] = Head(incoming[e])]
    /\ incoming' = [incoming EXCEPT ![e] = Tail(@)]
    /\ UNCHANGED <<extras, callLlm, replies, sysprompt, store, mdinv, dec,
                   files, renderer, callVars>>

\* what the framework invokes the hooks with
Prompts == {<<" ">>, <<" ", "p">>}

Chains ==
    { <<At("u1"), Plain(<<"b">> \o OPEN \o <<"a">> \o CLOSE), At("u2"),
        Plain(OPEN \o <<"b">> \o CLOSE)>>,
      <<Plain(<<" ">>)>> }

NoResult == [set |-> FALSE, chain |-> <<>>]
Result(chain) == [set |-> TRUE, chain |-> chain]

\* the results an event is given one after the other: a chain, or a result
\* without a chain and then a chain
Scripts ==
    {<<Result(ch)>> : ch \in Chains}
        \cup {<<Result(<<>>), Result(ch)>> : ch \in Chains}

\* the records of the stored histories
HistRecords ==
    { Message("user", Content(<<"p">>)),
      Message("user", Content(<<"q">>)),
      Message("user", ListContent(<<ImageUrlPart(<<"f">>), TextPart(<<"p">>)>>)),
      Message("assistant", Content(<<"x">>)),
      NotADict }

RECURSIVE HistoriesOfLen(_)
HistoriesOfLen(n) ==
    IF n = 0 THEN {<<>>}
    ELSE {Append(h, rec) : h \in HistoriesOfLen(n - 1), rec \in HistRecords}

\* longer histories: an answer before the prompt, two answers after it,
\* the prompt asked twice, the prompt in a list of parts
LongHistories ==
    LET up == Message("user", Content(<<"p">>))
        uq == Message("user", Content(<<"q">>))
        ul == Message("user", ListContent(<<ImageUrlPart(<<"f">>), TextPart(<<"p">>)>>))
        as == Message("assistant", Content(<<"x">>))
    IN  { <<as, up, as>>, <<up, as, as>>, <<as, up, uq>>, <<as, as, uq>>,
          <<up, as, up, as>>, <<up, as, as, uq, as>>, <<as, ul, as, as>>,
          <<up, as, NotADict, uq, as>> }

Histories == UNION {HistoriesOfLen(n) : n \in 0..MaxHist} \cup LongHistories

\* the events es have arrived, no hook has been invoked on them yet; the
\* conversation manager has no conversation, or one with a history of hs
HookInit(es, scripts, hs, modes) ==
    /\ text = <<>>
    /\ InitCalls({})
    /\ files = <<>>
    /\ renderer \in modes
    /\ extras = [e \in es |-> <<>>]
    /\ callLlm = [e \in es |-> TRUE]
    /\ replies = [e \in es |-> <<>>]
    /\ sysprompt = [e \in es |-> <<>>]
    /\ result = [e \in es |-> NoResult]
    /\ incoming \in [es -> scripts]
    /\ store \in {[has |-> FALSE, history |-> <<>>]}
                    \cup {[has |-> TRUE, history |-> h] : h \in hs}
    /\ mdinv = <<MdIdle, MdIdle>>
    /\ dec = <<DecIdle, DecIdle>>

\* invocation i is the next one the framework makes
IsNext(invs, i) ==
    /\ invs[i].pc = "idle"
    /\ \A k \in 1..(i - 1) : invs[k].pc # "idle"

HookNext ==
    \/ \E m \in MdInvs, e \in Events, prompt \in Prompts :
          IsNext(mdinv, m) /\ Md(m, e, prompt)
    \/ \E m \in MdInvs, outcome \in MdOutcomes : MdResume(m, outcome)
    \/ \E e \in Events : OnLlmReq(e)
    \/ \E e \in Events : OnLlmResp(e)
    \/ \E d \in DecInvs, e \in Events :
          IsNext(dec, d) /\ OnDecoratingResult(d, e)
    \/ \E d \in DecInvs : DecorRenderReturn(d)
    \/ \E d \in DecInvs, ok \in BOOLEAN : DecorGetConversation(d, ok)
    \/ \E d \in DecInvs : DecorUpdateConversation(d)
    \/ \E e \in Events : SetResult(e)

\* a history with the prompt of /md and its answer
AskedP == <<Message("user", Content(<<"p">>)), Message("assistant", Content(<<"x">>))>>

\* two events, each given one chain with one `<md>` fragment, their hooks
\* interleaved
HookSpec ==
    /\ HookInit({"A", "B"}, {<<Result(<<Plain(OPEN \o <<"a">> \o CLOSE)>>)>>},
                {AskedP}, {"ok"})
    /\ [][HookNext]_vars

\* one event, given any of the chains
DecorSpec == HookInit({"A"}, Scripts, {AskedP}, Modes) /\ [][HookNext]_vars

\* one event, the conversation with any history
HistSpec ==
    /\ HookInit({"A"}, {<<Result(ch)>> : ch \in Chains}, Histories, {"ok"})
    /\ [][HookNext]_vars

(***************************************************************************)
(* Vocabulary of the properties, defined on positions of the text and      *)
(* independently of the operators above.                                   *)
(***************************************************************************)
\* positions of the literal start tags and end tags
Opens(t) == {i \in 1..Len(t) : StartsAt(t, OPEN, i)}
Closes(t) == {i \in 1..Len(t) : StartsAt(t, CLOSE, i)}

Balanced(t) == Cardinality(Opens(t)) = Cardinality(Closes(t))

\* a start tag followed by another start tag with no end tag between them
Nested(t) ==
    \E i, j \in Opens(t) :
        /\ i < j
        /\ \A k \in Closes(t) : ~(i < k /\ k < j)

NoTags(t) == Opens(t) = {} /\ Closes(t) = {}

\* t without its leading whitespace, and trimmed at both ends
RECURSIVE TrimLeft(_)
TrimLeft(t) ==
    IF t # <<>> /\ Head(t) \in Whitespace THEN TrimLeft(Tail(t)) ELSE t

RECURSIVE TrimRight(_)
TrimRight(t) ==
    IF t # <<>> /\ t[Len(t)] \in Whitespace
    THEN TrimRight(SubSeq(t, 1, Len(t) - 1)) ELSE t

Trim(t) == TrimRight(TrimLeft(t))

\* what a Renderable segment with this markdown may become
Outcomes(md) ==
    {ImageFromFileSystem(OutputPath(md)), FailNotice(md), ExcNotice(md)}

\* the Text segment of a piece outside the tags, none when it is blank
TextSeg(s) == IF Trim(s) = <<>> THEN <<>> ELSE <<Plain(Trim(s))>>

Done(c) == pc[c] = "done"

(***************************************************************************)
(* C1  Imbalance triggers fallback: a text whose number of <md> differs    *)
(* from its number of </md> yields exactly one Plain segment, no image,    *)
(* and no render is invoked.                                               *)
(***************************************************************************)
ImbalanceFallsBack ==
    \A c \in Calls :
        (Done(c) /\ ~Balanced(text[c])) =>
            /\ Len(components[c]) = 1
            /\ components[c][1].kind = "Plain"
            /\ rendered[c] = <<>>

(***************************************************************************)
(* C2  Nesting triggers fallback: a text in which a start tag follows a    *)
(* start tag with no end tag between them yields exactly one Plain         *)
(* segment, no image, and nothing of it is rendered.                       *)
(***************************************************************************)
NestingFallsBack ==
    \A c \in Calls :
        (Done(c) /\ Nested(text[c])) =>
            /\ Len(components[c]) = 1
            /\ components[c][1].kind = "Plain"
            /\ rendered[c] = <<>>

(***************************************************************************)
(* C7  No-tag passthrough.  As claimed: every text without any tag yields  *)
(* exactly one Plain segment equal to the trimmed text.                    *)
(***************************************************************************)
NoTagPassthroughAlways ==
    \A c \in Calls :
        (Done(c) /\ NoTags(text[c])) =>
            components[c] = <<Plain(Trim(text[c]))>>

(***************************************************************************)
(* C7 as amended: a text without any tag that is non-empty after trimming  *)
(* yields exactly one Plain segment equal to the trimmed text; an empty or *)
(* whitespace-only text yields no segment; no render is invoked.           *)
(***************************************************************************)
NoTagPassthrough ==
    \A c \in Calls :
        (Done(c) /\ NoTags(text[c])) =>
            /\ components[c] = TextSeg(text[c])
            /\ rendered[c] = <<>>

\* a text without tags, with whitespace around its content, has returned
NoTagPassthroughWitness ==
    \E c \in Calls :
        /\ Done(c)
        /\ NoTags(text[c])
        /\ Trim(text[c]) # <<>>
        /\ Head(text[c]) \in Whitespace
        /\ text[c][Len(text[c])] \in Whitespace
        /\ Len(components[c]) = 1

(***************************************************************************)
(* The segmentation of a text with balanced, non-nested tags, read off the *)
(* positions of its tags: a pair is a start tag and the first end tag      *)
(* after it; the pieces between the pairs are the text outside the tags.   *)
(***************************************************************************)
Pairs(t) ==
    {p \in Opens(t) \X Closes(t) :
        /\ p[1] < p[2]
        /\ \A k \in Closes(t) : ~(p[1] < k /\ k < p[2])}

\* the Renderable segment of a pair's interior, none when it is blank
MdSegs(s) == IF Trim(s) = <<>> THEN <<>> ELSE << Outcomes(Trim(s)) >>

\* the expected segments from position pos on: a Text segment is the
\* singleton of its Plain component, a Renderable segment the set of the
\* components it may become
RECURSIVE ExpectedFrom(_, _, _)
ExpectedFrom(t, pos, ps) ==
    IF ps = {}
    THEN [k \in 1..Len(TextSeg(SubSeq(t, pos, Len(t)))) |->
             {TextSeg(SubSeq(t, pos, Len(t)))[k]}]
    ELSE LET p == CHOOSE q \in ps : \A r \in ps : q[1] <= r[1]
             before == TextSeg(SubSeq(t, pos, p[1] - 1))
         IN  [k \in 1..Len(before) |-> {before[k]}]
             \o MdSegs(SubSeq(t, p[1] + Len(OPEN), p[2] - 1))
             \o ExpectedFrom(t, p[2] + Len(CLOSE), ps \ {p})

Expected(t) == ExpectedFrom(t, 1, Pairs(t))

\* comps is the sequence exp, one component per expected segment, in order
Realises(comps, exp) ==
    /\ Len(comps) = Len(exp)
    /\ \A k \in 1..Len(exp) : comps[k] \in exp[k]

(***************************************************************************)
(* C3  Order preservation: for a text with balanced, non-nested tags the   *)
(* returned components are, in the left-to-right order of the text, one    *)
(* Plain per non-blank piece outside the tags and one image or failure     *)
(* notice per pair with a non-blank interior; nothing is reordered,        *)
(* duplicated or merged.                                                   *)
(***************************************************************************)
OrderPreserved ==
    \A c \in Calls :
        (Done(c) /\ Balanced(text[c]) /\ ~Nested(text[c])) =>
            Realises(components[c], Expected(text[c]))

\* a call on "pre <md>X</md> mid <md>Y</md> post" has rendered X and Y and
\* returned Text, Renderable, Text, Renderable, Text
OrderPreservedWitness ==
    \E c \in Calls :
        /\ Done(c)
        /\ Balanced(text[c]) /\ ~Nested(text[c])
        /\ Cardinality(Opens(text[c])) = 2
        /\ Len(components[c]) = 5
        /\ components[c][1].kind = "Plain"
        /\ components[c][2].kind = "Image"
        /\ components[c][3].kind = "Plain"
        /\ components[c][4] = FailNotice(<<"b", "b">>)
        /\ components[c][5].kind = "Plain"
        /\ Len(rendered[c]) = 2

(***************************************************************************)
(* C4  Balanced round-trip: a text with exactly one pair <md>X</md>, X     *)
(* non-blank, and no other tag yields exactly one Renderable segment, for  *)
(* the markdown X trimmed, between the Text segments of the non-blank text *)
(* before and after the pair; the only markdown handed to the render       *)
(* capability is X trimmed.                                                *)
(***************************************************************************)
BalancedRoundTrip ==
    \A c \in Calls :
        Done(c) =>
        \A i \in Opens(text[c]), j \in Closes(text[c]) :
            LET t == text[c]
                X == SubSeq(t, i + Len(OPEN), j - 1)
                pre == SubSeq(t, 1, i - 1)
                post == SubSeq(t, j + Len(CLOSE), Len(t))
            IN  ( /\ Opens(t) = {i} /\ Closes(t) = {j} /\ i < j
                  /\ Trim(X) # <<>> ) =>
                    /\ \E r \in Outcomes(Trim(X)) :
                          components[c] = TextSeg(pre) \o <<r>> \o TextSeg(post)
                    /\ \A k \in 1..Len(rendered[c]) : rendered[c][k] = Trim(X)
                    /\ Len(rendered[c]) <= 1

\* a call on a text with one pair whose interior has whitespace around it
\* has rendered it and returned
BalancedRoundTripWitness ==
    \E c \in Calls :
        /\ Done(c)
        /\ Cardinality(Opens(text[c])) = 1
        /\ Cardinality(Closes(text[c])) = 1
        /\ Len(rendered[c]) = 1
        /\ \E i \in Opens(text[c]) :
              /\ text[c][i + Len(OPEN)] \in Whitespace
              /\ i > 1
        /\ \E k \in 1..Len(components[c]) : components[c][k].kind = "Image"

(***************************************************************************)
(* C6  Segment non-emptiness: every component a call has emitted has       *)
(* content that is non-empty after trimming (a Plain its text, an image    *)
(* the markdown it renders), every markdown handed to the render           *)
(* capability is non-empty after trimming, and a text made only of         *)
(* whitespace and of pairs with whitespace-only interiors yields no        *)
(* segment and no render.                                                  *)
(***************************************************************************)
\* s is a piece of t that is non-empty and has no whitespace around it
IsContentOf(s, t) ==
    /\ s # <<>>
    /\ Trim(s) = s
    /\ \E i \in 1..Len(t) : StartsAt(t, s, i)

\* path is the cache path of a content of t
IsPathOfContent(path, t) ==
    \E i \in 1..Len(t) : \E j \in i..Len(t) :
        /\ path = OutputPath(SubSeq(t, i, j))
        /\ IsContentOf(SubSeq(t, i, j), t)

\* t is whitespace and pairs <md> </md> with whitespace-only interiors
RECURSIVE BlankPairs(_)
BlankPairs(t) ==
    LET u == TrimLeft(t)
    IN  \/ u = <<>>
        \/ /\ StartsWith(u, OPEN)
           /\ LET v == TrimLeft(SubSeq(u, Len(OPEN) + 1, Len(u)))
              IN  /\ StartsWith(v, CLOSE)
                  /\ BlankPairs(SubSeq(v, Len(CLOSE) + 1, Len(v)))

SegmentsNonEmpty ==
    \A c \in Calls :
        /\ \A k \in 1..Len(components[c]) :
              LET comp == components[c][k]
              IN  /\ comp.kind = "Plain" => Trim(comp.text) # <<>>
                  /\ comp.kind = "Image" => IsPathOfContent(comp.path, text[c])
        /\ \A k \in 1..Len(rendered[c]) :
              IsContentOf(rendered[c][k], text[c])
        /\ (pc[c] # "start" /\ BlankPairs(text[c])) =>
              /\ Done(c)
              /\ components[c] = <<>>
              /\ rendered[c] = <<>>

\* a call on a text that has a pair with a whitespace-only interior has
\* returned
SegmentsNonEmptyWitness ==
    \E c \in Calls :
        /\ Done(c)
        /\ BlankPairs(text[c])
        /\ \E i \in Opens(text[c]) : text[c][i + Len(OPEN)] \in Whitespace
        /\ components[c] = <<>>

(***************************************************************************)
(* C5  Render failure is recovered per segment: when the render a call     *)
(* awaits raises, or returns without producing its output file, the call   *)
(* adds at that segment's position a Plain failure notice that carries the *)
(* markdown, and goes on with the parts that follow.                       *)
(***************************************************************************)
RenderFailureRecovered ==
    [][ \A c \in Calls :
          ( /\ pc[c] = "await"
            /\ inflight[c] \in {"raises", "nofile"}
            /\ idx'[c] # idx[c] ) =>
              /\ Len(components'[c]) > Len(components[c])
              /\ components'[c][Len(components[c]) + 1]
                    \in {FailNotice(CurrentMd(c)), ExcNotice(CurrentMd(c))}
      ]_vars

(***************************************************************************)
(* C8  Cache transparency: every component a call adds for a Renderable    *)
(* segment is the one a fresh render would give at that moment: after a    *)
(* render, the image if it wrote the file and the notice if it failed;     *)
(* from the cache, an image only if the render capability would not fail   *)
(* now.                                                                    *)
(***************************************************************************)
\* what a render of md that ends as mode says gives, without any cache
FreshComponent(md, mode) ==
    IF mode = "ok" THEN ImageFromFileSystem(OutputPath(md))
    ELSE IF mode = "raises" THEN ExcNotice(md)
    ELSE FailNotice(md)

CacheTransparent ==
    [][ \A c \in Calls :
          LET old == Len(components[c])
              returned == pc[c] = "await" /\ idx'[c] # idx[c]
              first == IF returned THEN old + 2 ELSE old + 1
          IN  /\ returned =>
                    /\ Len(components'[c]) > old
                    /\ components'[c][old + 1]
                          = FreshComponent(CurrentMd(c), inflight[c])
              /\ \A k \in first..Len(components'[c]) :
                    components'[c][k].kind = "Image" =>
                        renderer \notin {"raises", "nofile"}
      ]_vars

(***************************************************************************)
(* C9  At most one render in flight per content hash: no two calls await   *)
(* a render of the same output path at the same time.                      *)
(***************************************************************************)
OneRenderPerHash ==
    \A c, d \in Calls :
        (c # d /\ pc[c] = "await" /\ pc[d] = "await") =>
            OutputPath(CurrentMd(c)) # OutputPath(CurrentMd(d))

(***************************************************************************)
(* C10  Per-render timeout: every call eventually returns, also when a     *)
(* render it awaits never completes.                                       *)
(***************************************************************************)
EveryCallReturns ==
    \A c \in {"c1", "c2"} : <>(pc[c] = "done")

(***************************************************************************)
(* The segments of the parts re.split returned, in their order: a Text     *)
(* segment for a non-blank part outside the tags, a Renderable segment for *)
(* a pair with a non-blank interior.                                       *)
(***************************************************************************)
SlotOf(raw) ==
    LET p == Trim(raw)
        md == Trim(SubSeq(p, Len(OPEN) + 1, Len(p) - Len(CLOSE)))
    IN  IF p = <<>> THEN [kind |-> "none", md |-> <<>>]
        ELSE IF StartsWith(p, OPEN) /\ EndsWith(p, CLOSE)
        THEN IF md = <<>> THEN [kind |-> "none", md |-> <<>>]
             ELSE [kind |-> "Renderable", md |-> md]
        ELSE [kind |-> "Text", md |-> p]

IsSlot(slot) == slot.kind # "none"

Slots(ps) == SelectSeq([k \in 1..Len(ps) |-> SlotOf(ps[k])], IsSlot)

\* the components a segment may become
SlotOutcomes(slot) ==
    IF slot.kind = "Text" THEN {Plain(slot.md)} ELSE Outcomes(slot.md)

IsNotice(comp, md) == comp \in {FailNotice(md), ExcNotice(md)}

(***************************************************************************)
(* C11  Render ordering: within one call the renders start in the          *)
(* left-to-right order of the Renderable segments, the render a call       *)
(* awaits is the one of the first segment not yet emitted, and the image   *)
(* or notice of each Renderable segment stands at that segment's position, *)
(* whatever the outcome of the renders.                                    *)
(***************************************************************************)
RenderOrdered ==
    \A c \in Calls :
        pc[c] # "start" =>
            LET sl == Slots(parts[c])
                n == Len(components[c])
                r == rendered[c]
                upto == IF pc[c] = "await" THEN n + 1 ELSE n
            IN  /\ n <= Len(sl)
                /\ \A k \in 1..n : components[c][k] \in SlotOutcomes(sl[k])
                /\ pc[c] = "done" => n = Len(sl)
                /\ pc[c] = "await" =>
                      /\ n < Len(sl)
                      /\ r # <<>>
                      /\ sl[n + 1] = [kind |-> "Renderable", md |-> r[Len(r)]]
                /\ \E f \in [1..Len(r) -> 1..upto] :
                      /\ \A i, j \in 1..Len(r) : i < j => f[i] < f[j]
                      /\ \A i \in 1..Len(r) :
                            sl[f[i]] = [kind |-> "Renderable", md |-> r[i]]
                      /\ \A k \in 1..n :
                            ( /\ sl[k].kind = "Renderable"
                              /\ IsNotice(components[c][k], sl[k].md) ) =>
                                \E i \in 1..Len(r) : f[i] = k

\* a call has rendered two different Renderable segments, the first render
\* raised and the second wrote its image, and has returned
RenderOrderedWitness ==
    \E c \in Calls :
        /\ Done(c)
        /\ Len(rendered[c]) = 2
        /\ rendered[c][1] # rendered[c][2]
        /\ Len(components[c]) = 5
        /\ components[c][2] = ExcNotice(rendered[c][1])
        /\ components[c][4] = ImageFromFileSystem(OutputPath(rendered[c][2]))

(***************************************************************************)
(* C19  Every Image a call emits refers to a file that exists and is       *)
(* non-empty at the moment it is emitted.                                  *)
(***************************************************************************)
ImagesExist ==
    [][ \A c \in Calls :
          \A k \in (Len(components[c]) + 1)..Len(components'[c]) :
              components'[c][k].kind = "Image" =>
                  /\ components'[c][k].path \in DOMAIN files'
                  /\ files'[components'[c][k].path] = "full"
      ]_vars

(***************************************************************************)
(* Properties of the hooks.                                                *)
(***************************************************************************)
\* the invocation inv has taken the chain of its event to segment it, has
\* rendered, has assigned result.chain or has given a history to
\* update_conversation
Active(inv) ==
    \/ inv.pc \in {"await", "get_conversation", "update_conversation"}
    \/ inv.chain # <<>>
    \/ inv.wrote
    \/ inv.rendered # <<>>
    \/ inv.updated # <<>>

\* the flag key is set on event e
Flag(e, key) == key \in DOMAIN extras[e] /\ extras[e][key] = TRUE

\* invocation d of on_decorating_result is made on event e in this step
Enters(d, e) == dec[d].pc = "idle" /\ dec'[d].pc # "idle" /\ dec'[d].ev = e

\* C13: decoration happens at most once per event: an on_decorating_result
\* invocation made on an event that another invocation has segmented the
\* chain of returns at once, without segmenting, rendering, assigning
\* result.chain or touching the conversation; so at most one invocation per
\* event does any of these.
DecoratedOnce ==
    [][ /\ \A d \in DecInvs, e \in Events :
             Enters(d, e) /\ (\E o \in DecInvs \ {d} : dec[o].ev = e /\ Active(dec[o]))
                 => /\ dec'[d].pc = "done"
                    /\ ~Active(dec'[d])
                    /\ result' = result
                    /\ files' = files
                    /\ store' = store
        /\ \A e \in Events :
             Cardinality({d \in DecInvs : dec'[d].ev = e /\ Active(dec'[d])}) <= 1
      ]_vars

\* two invocations on the same event: the first one rendered and assigned
\* result.chain, the second one returned without doing anything
DecoratedOnceWitness ==
    /\ dec[1].ev = "A" /\ dec[2].ev = "A"
    /\ Flag("A", INJECT)
    /\ dec[1].wrote /\ dec[1].rendered # <<>>
    /\ dec[2].pc = "done" /\ ~Active(dec[2])

\* C14: the dedupe guard skips an invocation only after an earlier
\* invocation on the same event made a render pass over the chain: an
\* invocation made on an event with the inject flag set and a non-empty
\* chain, that no other invocation has segmented the chain of, segments it.
GuardOnlyAfterRenderPass ==
    [][ \A d \in DecInvs, e \in Events :
           /\ Enters(d, e)
           /\ Flag(e, INJECT)
           /\ result[e].set /\ result[e].chain # <<>>
           /\ ~ \E o \in DecInvs \ {d} : dec[o].ev = e /\ Active(dec[o])
           => Active(dec'[d])
      ]_vars

\* invocation m of the md command is made on event e in this step
MdEnters(m, e) == mdinv[m].pc = "idle" /\ mdinv'[m].pc # "idle" /\ mdinv'[m].ev = e

\* the LLM requests among the replies rs
Requests(rs) == {k \in 1..Len(rs) : rs[k].kind = "request_llm"}

\* the value of the key on event e, as a sequence of no or one value
Extra(x, key) == IF key \in DOMAIN x THEN <<x[key]>> ELSE <<>>

\* C15: /md is handled at most once per event: an md invocation made on an
\* event on which md was invoked before only adds the duplicate-trigger
\* notice, stops the event and leaves the inject, conversation-id and
\* prompt-text extras as they are; an event never has more than one LLM
\* request, and the request is issued by the first invocation on the event,
\* whose trimmed prompt is not empty.
MdOnce ==
    [][ /\ \A m \in MdInvs, e \in Events :
             MdEnters(m, e) /\ (\E o \in MdInvs \ {m} : mdinv[o].ev = e)
                 => /\ mdinv'[m].pc = "done"
                    /\ Len(replies'[e]) = Len(replies[e]) + 1
                    /\ SubSeq(replies'[e], 1, Len(replies[e])) = replies[e]
                    /\ replies'[e][Len(replies'[e])].kind = "duplicate"
                    /\ replies'[e][Len(replies'[e])].stop
                    /\ \A key \in {INJECT, CONVERSATION_ID, PROMPT_TEXT} :
                          Extra(extras'[e], key) = Extra(extras[e], key)
        /\ \A e \in Events :
             /\ Cardinality(Requests(replies'[e])) <= 1
             /\ Requests(replies'[e]) # Requests(replies[e])
                   => \E m \in MdInvs :
                         /\ mdinv[m].ev = e /\ mdinv[m].pc = "await"
                         /\ mdinv'[m].pc = "done"
                         /\ \A o \in 1..(m - 1) : mdinv[o].ev # e
                         /\ Trim(mdinv[m].prompt_text) # <<>>
      ]_vars

\* md was invoked twice on event A: one LLM request and one notice
MdOnceWitness ==
    /\ mdinv[1].ev = "A" /\ mdinv[2].ev = "A"
    /\ mdinv[1].pc = "done" /\ mdinv[2].pc = "done"
    /\ Len(replies["A"]) = 2
    /\ \E i, j \in 1..2 : /\ replies["A"][i].kind = "request_llm"
                          /\ replies["A"][j].kind = "duplicate"

\* C16: rule injection is scoped to /md requests: while the inject flag of
\* an event is unset, no step adds to the system prompt of its request or
\* stores the completion text on it, and an on_decorating_result invocation
\* made on it returns at once, leaving the result chain, the cache and the
\* conversation as they are and rendering nothing.
InjectScoped ==
    [][ \A e \in Events :
           ~Flag(e, INJECT)
           => /\ sysprompt'[e] = sysprompt[e]
              /\ RAW_TEXT \notin DOMAIN extras'[e]
              /\ \A d \in DecInvs :
                    Enters(d, e) => /\ dec'[d].pc = "done"
                                    /\ ~Active(dec'[d])
                                    /\ result' = result
                                    /\ files' = files
                                    /\ store' = store
      ]_vars

\* md ran on event A with a blank prompt; on_decorating_result was invoked
\* on A, whose chain holds `<md>` tags, and left it alone
InjectScopedWitness ==
    /\ Flag("A", CMD_PROCESSED) /\ ~Flag("A", INJECT)
    /\ \E d \in DecInvs : dec[d].ev = "A" /\ dec[d].pc = "done"
    /\ result["A"].chain = <<Plain(OPEN \o <<"a">> \o CLOSE)>>
    /\ sysprompt["A"] = <<>>
    /\ files = <<>>

\* what the hooks keep on event e
Touched(e) ==
    \/ extras'[e] # extras[e]
    \/ callLlm'[e] # callLlm[e]
    \/ replies'[e] # replies[e]
    \/ sysprompt'[e] # sysprompt[e]
    \/ result'[e] # result[e] /\ incoming' = incoming

\* C12: no cross-request interference: a step of a hook invoked on one
\* event changes the processing state of no other event, and what a hook
\* does on event b follows from the flags of b alone: md is executed if and
\* only if b's command-processed flag is unset, the rules are added to the
\* system prompt only if b's inject flag is set, and the result is decorated
\* only if b's inject flag is set and b's decorated flag is not.
NoInterference ==
    [][ /\ \A a, b \in Events : Touched(a) /\ Touched(b) => a = b
        /\ \A b \in Events :
             /\ \A m \in MdInvs :
                   /\ mdinv'[m] # mdinv[m] /\ mdinv'[m].ev # b => ~Touched(b)
                   /\ MdEnters(m, b)
                         => (Flag(b, CMD_PROCESSED)
                               <=> /\ Len(replies'[b]) = Len(replies[b]) + 1
                                   /\ replies'[b][Len(replies'[b])].kind = "duplicate")
                   /\ MdEnters(m, b) /\ ~Flag(b, CMD_PROCESSED)
                         => Flag(b, CMD_PROCESSED)'
             /\ \A d \in DecInvs :
                   /\ dec'[d] # dec[d] /\ dec'[d].ev # b => ~Touched(b)
                   /\ Enters(d, b) /\ Active(dec'[d])
                         => Flag(b, INJECT) /\ ~Flag(b, DECORATED)
                   /\ Enters(d, b) /\ Flag(b, INJECT) /\ ~Flag(b, DECORATED)
                         => Flag(b, DECORATED)'
             /\ sysprompt'[b] # sysprompt[b] => Flag(b, INJECT)
      ]_vars

\* on both events md was executed, the rules were injected and the result
\* was decorated
NoInterferenceWitness ==
    \A e \in {"A", "B"} :
        /\ Requests(replies[e]) # {}
        /\ sysprompt[e] # <<>>
        /\ Flag(e, DECORATED)
        /\ \E d \in DecInvs : dec[d].ev = e /\ dec[d].wrote

\* the chain new is the chain old with every Plain component replaced by
\* the components of the segments of its text and every other component
\* kept
RECURSIVE Decorates(_, _)
Decorates(old, new) ==
    IF old = <<>> THEN new = <<>>
    ELSE IF old[1].kind = "Plain"
    THEN LET slots == Slots(ReSplit(old[1].text))
         IN  /\ Len(new) >= Len(slots)
             /\ \A k \in 1..Len(slots) : new[k] \in SlotOutcomes(slots[k])
             /\ Decorates(Tail(old), SubSeq(new, Len(slots) + 1, Len(new)))
    ELSE /\ new # <<>>
         /\ new[1] = old[1]
         /\ Decorates(Tail(old), Tail(new))

\* C18: only plain-text components are rewritten: the chain an invocation
\* assigns to result.chain is the chain it read with every non-Plain
\* component kept in its place and every Plain component replaced, in
\* place, by the components of the segments of its text.
OnlyPlainRewritten ==
    [][ \A d \in DecInvs :
           ~dec[d].wrote /\ dec'[d].wrote
           => /\ dec'[d].chain # <<>>
              /\ Decorates(dec'[d].chain, result'[dec'[d].ev].chain)
      ]_vars

\* the chain At, Plain, At, Plain was decorated after two renders
OnlyPlainRewrittenWitness ==
    /\ dec[1].wrote
    /\ Len(dec[1].chain) = 4
    /\ Len(dec[1].rendered) = 2
    /\ Len(result["A"].chain) = 5
    /\ result["A"].chain[1] = At("u1")
    /\ result["A"].chain[4] = At("u2")

\* the record rec asks for the prompt
AsksFor(rec, prompt_text) ==
    /\ rec.dict
    /\ rec.role = "user"
    /\ \/ ~rec.content.list /\ rec.content.val = prompt_text
       \/ /\ rec.content.list
          /\ \E k \in 1..Len(rec.content.val) :
                /\ rec.content.val[k].type = "text"
                /\ rec.content.val[k].text = prompt_text

Assistants(h) == {j \in 1..Len(h) : h[j].dict /\ h[j].role = "assistant"}

\* the assistant records after the most recent record that asks for the
\* prompt
Answers(h, prompt_text) ==
    {j \in Assistants(h) :
        /\ \E i \in 1..(j - 1) : AsksFor(h[i], prompt_text)
        /\ \A i \in (j + 1)..Len(h) : ~AsksFor(h[i], prompt_text)}

\* t is the record the update is to replace the content of
IsTarget(h, prompt_text, t) ==
    IF Answers(h, prompt_text) # {}
    THEN t \in Answers(h, prompt_text) /\ \A j \in Answers(h, prompt_text) : t <= j
    ELSE t \in Assistants(h) /\ \A j \in Assistants(h) : j <= t

====
